---- MODULE Spec2Model ----
(***************************************************************************)
(* Model of dev/src/transaction.js: the Transaction class of the Firestore *)
(* Node.js client.  Every Transaction object ("attempt") owns a write      *)
(* batch, a request tag, an optional previous transaction and, once begin  *)
(* has resolved, a transaction id.  The callers of the class (the user's   *)
(* update function and runTransaction) are the environment: they may call  *)
(* any method at any time, and the transport answers every request with a  *)
(* success or a failure.                                                   *)
(***************************************************************************)
EXTENDS Integers, Sequences, FiniteSets, TLC

\* ---------------------------------------------------------------- bounds
MaxCalls == 4   \* calls by the callers, resends by the transport, in one run

\* ---------------------------------------------------------------- values
Attempts == 1..MaxCalls
Unset == 0                                  \* JavaScript undefined
NoArgs == << >>

\* JavaScript values handed to the methods
Val(k, i, e) == [k |-> k, id |-> i, elems |-> e]
DocRef(i) == Val("ref", i, NoArgs)          \* a DocumentReference
Docs == {DocRef(1), DocRef(2)}
QueryVal == Val("query", 1, NoArgs)         \* a Query
BadVal == Val("bad", 0, NoArgs)             \* neither of the two
DataVal == Val("data", 1, NoArgs)           \* document data / update map
Arr(s) == Val("array", 0, s)                \* a JavaScript array
Snapshot(d) == Val("snapshot", d.id, NoArgs)      \* DocumentSnapshot of d
QuerySnapshot(q) == Val("querySnapshot", q.id, NoArgs)
Prims == Docs \cup {QueryVal, BadVal}

\* is.instance(x, DocumentReference), is.instance(x, Query), is.array(x)
IsDocumentReference(x) == x.k = "ref"
IsQuery(x) == x.k = "query"
IsArray(x) == x.k = "array"

\* ---------------------------------------------------------------- state
VARIABLES
  nAttempts,            \* number of Transaction objects constructed so far
  previousTransaction,  \* this._previousTransaction (0: none)
  writeBatch,           \* this._writeBatch: the identity of the WriteBatch
  requestTag,           \* this._requestTag
  transactionId,        \* this._transactionId (Unset until begin resolves)
  writes,               \* the operations each WriteBatch object holds
  nextTag,              \* tags util.requestTag() has produced
  nextTx,               \* transaction ids the server has produced
  inflight,             \* requests sent and not yet answered
  calls,                \* method calls made so far
  issued,               \* history: the write calls that returned, per attempt
  begun,                \* history: begin responses stored, per attempt
  beginFailed,          \* history: the attempts one of whose begins was rejected
  terminated,           \* history: the attempts commit or rollback was called on
  last                  \* the latest call or response and what it did

vars == <<nAttempts, previousTransaction, writeBatch, requestTag,
          transactionId, writes, nextTag, nextTx, inflight, calls, issued,
          begun, beginFailed, terminated, last>>

objVars == <<nAttempts, previousTransaction, writeBatch, requestTag>>

\* ---------------------------------------------------------------- requests
NoReq == [method |-> "none", att |-> 0, tag |-> 0, txid |-> Unset,
          hasOptions |-> FALSE, retryTransaction |-> Unset,
          docs |-> NoArgs, ops |-> NoArgs, allowRetries |-> FALSE,
          then |-> "none"]

\* the latest call or response: what was called on which attempt, how it
\* ended, the request it sent or answered, the value it returned or resolved
\* (badArg: a read was called with something that is no reference or query)
NoCall == [op |-> "none", att |-> 0, outcome |-> "none", req |-> NoReq,
           result |-> BadVal, badArg |-> FALSE]

Call(op, a, outcome, req, result) ==
  [op |-> op, att |-> a, outcome |-> outcome, req |-> req, result |-> result,
   badArg |-> FALSE]

Live(a) == a \in 1..nAttempts

\* the Transaction object itself, as a value
This(a) == Val("transaction", a, NoArgs)

\* one more call by the callers
Called == calls < MaxCalls /\ calls' = calls + 1

\* ---------------------------------------------------------------- collaborators
\* util.requestTag(): a tag no earlier call has returned
NewRequestTag == nextTag + 1

\* firestore.batch(): a new WriteBatch object; object a is the one made for
\* the a-th Transaction and holds no operation until something is added
NewWriteBatch(a) == a

\* WriteBatch.isEmpty
isEmpty(b) == Len(writes[b]) = 0

\* WriteBatch.create/set/update/delete: one operation added at the end
BatchAdd(b, kind, args) == [writes EXCEPT ![b] = Append(@, Val(kind, 0, args))]

\* WriteBatch.commit_(opts): the commit request of batch b
CommitRequest(a, b, opts) ==
  [NoReq EXCEPT !.method = "commit", !.att = a, !.tag = opts.requestTag,
                !.txid = opts.transactionId, !.ops = writes[b]]

\* validator.isDocumentReference(i, x) accepts document references only
ValidDocumentReference(x) == x.k = "ref"

\* validator.minNumberOfArguments(name, args, n)
HasMinNumberOfArguments(args, n) == Len(args) >= n

\* new DocumentGroup(firestore, documents, {transactionId}).get(): the read sent
DocumentGroupRequest(a, documents, opts) ==
  [NoReq EXCEPT !.method = "batchGet", !.att = a, !.txid = opts.transactionId,
                !.docs = documents]

\* what a DocumentGroup read resolves with: one snapshot per reference, in order
DocumentGroupSnapshots(documents) ==
  Arr([i \in 1..Len(documents) |-> Snapshot(documents[i])])

\* Query._get(transactionId): the query sent
QueryRequest(a, q, txid) ==
  [NoReq EXCEPT !.method = "runQuery", !.att = a, !.txid = txid,
                !.docs = <<q>>]

\* ---------------------------------------------------------------- constructor
\* slip: every attempt draws a tag of its own
InitialRequestTag_alwaysNew(p) == NewRequestTag

\* previousTransaction ? previousTransaction.requestTag : requestTag()
InitialRequestTag(p) == IF p # 0 THEN requestTag[p] ELSE NewRequestTag

\* slip: a retry goes on with the batch of the attempt it retries
InitialWriteBatch_shared(a, p) ==
  IF p # 0 THEN writeBatch[p] ELSE NewWriteBatch(a)

\* this._writeBatch = firestore.batch()
InitialWriteBatch(a, p) == NewWriteBatch(a)

Transaction(p) ==
  /\ p \in 0..nAttempts
  /\ Called
  /\ LET a == nAttempts + 1 IN
       /\ nAttempts' = a
       /\ previousTransaction' = [previousTransaction EXCEPT ![a] = p]
       /\ writeBatch' = [writeBatch EXCEPT ![a] = InitialWriteBatch(a, p)]
       /\ requestTag' = [requestTag EXCEPT ![a] = InitialRequestTag(p)]
       /\ nextTag' = IF p # 0 THEN nextTag ELSE NewRequestTag
       /\ last' = Call("new", a, "returned", NoReq, This(a))
  /\ UNCHANGED <<transactionId, writes, nextTx, inflight, issued, begun,
                 beginFailed, terminated>>

\* ---------------------------------------------------------------- reads
Thrown(kind) == [outcome |-> kind, req |-> NoReq]
Sent(req) == [outcome |-> "pending", req |-> req]

\* slip: an array argument is not taken apart
NormalizeDocuments_noArray(args) == args

\* is.array(arguments[0]) ? arguments[0].slice() : slice.call(arguments)
NormalizeDocuments(args) ==
  IF Len(args) > 0 /\ IsArray(args[1]) THEN args[1].elems ELSE args

\* slip: getAll without the read-after-write check
getAllResult_noGuard(a, args) ==
  LET documents == NormalizeDocuments(args) IN
    IF \E i \in 1..Len(documents) : ~ValidDocumentReference(documents[i])
      THEN Thrown("ArgumentError")
      ELSE Sent(DocumentGroupRequest(a, documents,
                                     [transactionId |-> transactionId[a]]))

\* getAll(documents...): what the call does, as (outcome, request sent)
getAllResult(a, args) ==
  IF ~isEmpty(writeBatch[a]) THEN Thrown("SequencingError")
  ELSE LET documents == NormalizeDocuments(args) IN
    IF \E i \in 1..Len(documents) : ~ValidDocumentReference(documents[i])
      THEN Thrown("ArgumentError")
      ELSE Sent(DocumentGroupRequest(a, documents,
                                     [transactionId |-> transactionId[a]]))

\* slip: get looks at its argument before it looks at the batch
getResult_validatesFirst(a, refOrQuery) ==
  IF ~IsDocumentReference(refOrQuery) /\ ~IsQuery(refOrQuery)
    THEN Thrown("ArgumentError")
  ELSE IF ~isEmpty(writeBatch[a]) THEN Thrown("SequencingError")
  ELSE IF IsDocumentReference(refOrQuery) THEN
    LET r == getAllResult(a, <<refOrQuery>>) IN
      IF r.outcome = "pending" THEN Sent([r.req EXCEPT !.then = "unwrap"])
                               ELSE r
  ELSE Sent(QueryRequest(a, refOrQuery, transactionId[a]))

\* slip: get leaves the read-after-write check to getAll
getResult_noGuard(a, refOrQuery) ==
  IF IsDocumentReference(refOrQuery) THEN
    LET r == getAllResult(a, <<refOrQuery>>) IN
      IF r.outcome = "pending" THEN Sent([r.req EXCEPT !.then = "unwrap"])
                               ELSE r
  ELSE IF IsQuery(refOrQuery) THEN
    Sent(QueryRequest(a, refOrQuery, transactionId[a]))
  ELSE Thrown("ArgumentError")

\* slip: get hands on getAll's array instead of its only element
getResult_noUnwrap(a, refOrQuery) ==
  IF ~isEmpty(writeBatch[a]) THEN Thrown("SequencingError")
  ELSE IF IsDocumentReference(refOrQuery) THEN
    getAllResult(a, <<refOrQuery>>)
  ELSE IF IsQuery(refOrQuery) THEN
    Sent(QueryRequest(a, refOrQuery, transactionId[a]))
  ELSE Thrown("ArgumentError")

\* get(refOrQuery): what the call does, as (outcome, request sent)
getResult(a, refOrQuery) ==
  IF ~isEmpty(writeBatch[a]) THEN Thrown("SequencingError")
  ELSE IF IsDocumentReference(refOrQuery) THEN
    LET r == getAllResult(a, <<refOrQuery>>) IN
      IF r.outcome = "pending" THEN Sent([r.req EXCEPT !.then = "unwrap"])
                               ELSE r
  ELSE IF IsQuery(refOrQuery) THEN
    Sent(QueryRequest(a, refOrQuery, transactionId[a]))
  ELSE Thrown("ArgumentError")

\* the caller's side of a read: the request goes out or the call throws
ReadCall(op, a, r, bad) ==
  /\ Called
  /\ inflight' = IF r.outcome = "pending"
                   THEN inflight \cup {r.req}
                   ELSE inflight
  /\ last' = [Call(op, a, r.outcome, r.req, BadVal) EXCEPT !.badArg = bad]
  /\ UNCHANGED <<objVars, transactionId, writes, nextTag, nextTx, issued,
                 begun, beginFailed, terminated>>

GetArgs == Prims \cup {Arr(<<DocRef(1)>>)}

get(a, refOrQuery) ==
  /\ Live(a)
  /\ refOrQuery \in GetArgs
  /\ ReadCall("get", a, getResult(a, refOrQuery),
              ~IsDocumentReference(refOrQuery) /\ ~IsQuery(refOrQuery))

\* lists of references, one of them with a stranger put in
DocLists ==
  {<< >>, <<DocRef(1)>>, <<DocRef(2)>>, <<DocRef(1), DocRef(2)>>,
   <<DocRef(2), DocRef(1)>>, <<DocRef(2), DocRef(2)>>,
   <<DocRef(1), DocRef(2), DocRef(1)>>}
Spoiled(s) == {[s EXCEPT ![i] = x] : i \in 1..Len(s), x \in {QueryVal, BadVal}}
ArgLists == DocLists \cup Spoiled(<<DocRef(1), DocRef(2)>>)

\* getAll(d1, d2, ...), getAll([d1, d2, ...]) and calls that mix the two
GetAllArgs ==
  ArgLists
    \cup {<<Arr(s)>> : s \in ArgLists}
    \cup {<<Arr(<<DocRef(1)>>), x>> : x \in {DocRef(2), BadVal}}
    \cup {<<DocRef(2), Arr(<<DocRef(1)>>)>>}

getAll(a, args) ==
  /\ Live(a)
  /\ args \in GetAllArgs
  /\ ReadCall("getAll", a, getAllResult(a, args),
              \E i \in 1..Len(NormalizeDocuments(args)) :
                 ~IsDocumentReference(NormalizeDocuments(args)[i]))

\* ---------------------------------------------------------------- writes

\* slip: the write methods return the batch instead of the transaction
WriteCall_returnsBatch(op, a, args, batchArgs) ==
  /\ Called
  /\ writes' = BatchAdd(writeBatch[a], op, batchArgs)
  /\ issued' = [issued EXCEPT ![a] = Append(@, Val(op, 0, args))]
  /\ last' = Call(op, a, "returned", NoReq,
                  Val("batch", writeBatch[a], NoArgs))
  /\ UNCHANGED <<objVars, transactionId, nextTag, nextTx, inflight, begun,
                 beginFailed, terminated>>

\* this._writeBatch.<op>(...); return this;
WriteCall(op, a, args, batchArgs) ==
  /\ Called
  /\ writes' = BatchAdd(writeBatch[a], op, batchArgs)
  /\ issued' = [issued EXCEPT ![a] = Append(@, Val(op, 0, args))]
  /\ last' = Call(op, a, "returned", NoReq, This(a))
  /\ UNCHANGED <<objVars, transactionId, nextTag, nextTx, inflight, begun,
                 beginFailed, terminated>>

WriteDocs == {DocRef(1)}
Options == {Val("options", 0, NoArgs)}
Preconditions == {Val("precondition", 0, NoArgs)}

create(a, documentRef, data) ==
  /\ Live(a)
  /\ WriteCall("create", a, <<documentRef, data>>, <<documentRef, data>>)

set(a, documentRef, data, options) ==
  /\ Live(a)
  /\ WriteCall("set", a, <<documentRef, data, options>>,
               <<documentRef, data, options>>)

\* slip: the arguments after the second are not passed on
UpdateBatchArgs_dropRest(args) == <<args[1], args[2]>>

\* [documentRef, dataOrField].concat(slice.call(arguments, 2))
UpdateBatchArgs(args) == <<args[1], args[2]>> \o SubSeq(args, 3, Len(args))

UpdateArgs ==
  {<< >>} \cup {<<d>> : d \in WriteDocs} \cup {<<d, DataVal>> : d \in WriteDocs}
    \cup {<<d, DataVal, p>> : d \in WriteDocs, p \in Preconditions}

\* slip: the number of arguments is checked after the batch was given them
update_lateValidation(a, args) ==
  /\ Live(a)
  /\ args \in UpdateArgs
  /\ Called
  /\ writes' = BatchAdd(writeBatch[a], "update", args)
  /\ IF ~HasMinNumberOfArguments(args, 2)
       THEN /\ last' = Call("update", a, "ArgumentError", NoReq, BadVal)
            /\ UNCHANGED issued
       ELSE /\ last' = Call("update", a, "returned", NoReq, This(a))
            /\ issued' = [issued EXCEPT
                           ![a] = Append(@, Val("update", 0, args))]
  /\ UNCHANGED <<objVars, transactionId, nextTag, nextTx, inflight, begun,
                 beginFailed, terminated>>

update(a, args) ==
  /\ Live(a)
  /\ args \in UpdateArgs
  /\ IF ~HasMinNumberOfArguments(args, 2)
       THEN /\ Called
            /\ last' = Call("update", a, "ArgumentError", NoReq, BadVal)
            /\ UNCHANGED <<objVars, transactionId, writes, nextTag, nextTx,
                           inflight, issued, begun, beginFailed, terminated>>
       ELSE WriteCall("update", a, args, UpdateBatchArgs(args))

delete(a, documentRef, precondition) ==
  /\ Live(a)
  /\ WriteCall("delete", a, <<documentRef, precondition>>,
               <<documentRef, precondition>>)

\* ---------------------------------------------------------------- lifecycle
ALLOW_RETRIES == TRUE

\* slip: the retry options are left out while there is no id to name
BeginRequest_onlyIfId(a) ==
  LET request == [NoReq EXCEPT !.method = "beginTransaction", !.att = a,
                               !.tag = requestTag[a],
                               !.allowRetries = ALLOW_RETRIES,
                               !.then = "store"]
  IN IF previousTransaction[a] # 0
          /\ transactionId[previousTransaction[a]] # Unset
       THEN [request EXCEPT !.hasOptions = TRUE,
               !.retryTransaction = transactionId[previousTransaction[a]]]
       ELSE request

\* slip: the retry marker is taken from the attempt itself
BeginRequest_ownId(a) ==
  LET request == [NoReq EXCEPT !.method = "beginTransaction", !.att = a,
                               !.tag = requestTag[a],
                               !.allowRetries = ALLOW_RETRIES,
                               !.then = "store"]
  IN IF previousTransaction[a] # 0
       THEN [request EXCEPT !.hasOptions = TRUE,
                            !.retryTransaction = transactionId[a]]
       ELSE request

\* the request begin() builds
BeginRequest(a) ==
  LET request == [NoReq EXCEPT !.method = "beginTransaction", !.att = a,
                               !.tag = requestTag[a],
                               !.allowRetries = ALLOW_RETRIES,
                               !.then = "store"]
  IN IF previousTransaction[a] # 0
       THEN [request EXCEPT !.hasOptions = TRUE,
               !.retryTransaction = transactionId[previousTransaction[a]]]
       ELSE request

\* slip: commit draws a tag of its own
CommitOptions_newTag(a) ==
  [transactionId |-> transactionId[a], requestTag |-> NewRequestTag]

\* the options commit() hands to the write batch
CommitOptions(a) ==
  [transactionId |-> transactionId[a], requestTag |-> requestTag[a]]

\* slip: rollback is issued as retryable, as begin is
RollbackRequest_retryable(a) ==
  [NoReq EXCEPT !.method = "rollback", !.att = a, !.tag = requestTag[a],
                !.txid = transactionId[a], !.allowRetries = ALLOW_RETRIES]

\* slip: a retry rolls back the attempt it retries
RollbackRequest_previousId(a) ==
  [NoReq EXCEPT !.method = "rollback", !.att = a, !.tag = requestTag[a],
                !.txid = IF previousTransaction[a] # 0
                           THEN transactionId[previousTransaction[a]]
                           ELSE transactionId[a]]

\* the request rollback() builds
RollbackRequest(a) ==
  [NoReq EXCEPT !.method = "rollback", !.att = a, !.tag = requestTag[a],
                !.txid = transactionId[a]]

Request(op, a, req) ==
  /\ Called
  /\ inflight' = inflight \cup {req}
  /\ terminated' = IF op \in {"commit", "rollback"} THEN terminated \cup {a}
                                                    ELSE terminated
  /\ last' = Call(op, a, "pending", req, BadVal)
  /\ UNCHANGED <<objVars, transactionId, writes, nextTag, nextTx, issued,
                 begun, beginFailed>>

begin(a) ==
  /\ Live(a)
  /\ Request("begin", a, BeginRequest(a))

\* slip: commit empties the batch it has sent
commit_clearsBatch(a) ==
  /\ Live(a)
  /\ Called
  /\ inflight' = inflight \cup
                   {CommitRequest(a, writeBatch[a], CommitOptions(a))}
  /\ writes' = [writes EXCEPT ![writeBatch[a]] = << >>]
  /\ terminated' = terminated \cup {a}
  /\ last' = Call("commit", a, "pending",
                  CommitRequest(a, writeBatch[a], CommitOptions(a)), BadVal)
  /\ UNCHANGED <<objVars, transactionId, nextTag, nextTx, issued, begun,
                 beginFailed>>

commit(a) ==
  /\ Live(a)
  /\ Request("commit", a, CommitRequest(a, writeBatch[a], CommitOptions(a)))

\* slip: rollback throws the buffered writes away
rollback_clearsBatch(a) ==
  /\ Live(a)
  /\ Called
  /\ inflight' = inflight \cup {RollbackRequest(a)}
  /\ writes' = [writes EXCEPT ![writeBatch[a]] = << >>]
  /\ terminated' = terminated \cup {a}
  /\ last' = Call("rollback", a, "pending", RollbackRequest(a), BadVal)
  /\ UNCHANGED <<objVars, transactionId, nextTag, nextTx, issued, begun,
                 beginFailed>>

rollback(a) ==
  /\ Live(a)
  /\ Request("rollback", a, RollbackRequest(a))

\* ---------------------------------------------------------------- responses
\* resp.transaction of a beginTransaction response
NewTransactionId == nextTx + 1

\* slip: the id is stored on the attempt that is being retried
StoreTransactionId_onPrevious(a, resp) ==
  [transactionId EXCEPT
     ![IF previousTransaction[a] # 0 THEN previousTransaction[a] ELSE a] = resp]

\* .then(resp => { this._transactionId = resp.transaction; })
StoreTransactionId(a, resp) == [transactionId EXCEPT ![a] = resp]

\* what the caller's promise resolves with
Resolution(req) ==
  IF req.method = "batchGet" THEN
    LET res == DocumentGroupSnapshots(req.docs) IN
      IF req.then = "unwrap" THEN res.elems[1] ELSE res   \* ([res]) => res
  ELSE IF req.method = "runQuery" THEN QuerySnapshot(req.docs[1])
  ELSE BadVal

RespOp(req) == req.method \o "Response"

Resolve(req) ==
  /\ req \in inflight
  /\ inflight' = inflight \ {req}
  /\ IF req.then = "store"
       THEN /\ transactionId' = StoreTransactionId(req.att, NewTransactionId)
            /\ nextTx' = NewTransactionId
            /\ begun' = [begun EXCEPT ![req.att] = @ + 1]
       ELSE UNCHANGED <<transactionId, nextTx, begun>>
  /\ last' = Call(RespOp(req), req.att, "resolved", req, Resolution(req))
  /\ UNCHANGED <<objVars, writes, nextTag, calls, issued, beginFailed,
                 terminated>>

\* the transport sends a request again that was issued as retryable
TransportRetry(req) ==
  /\ req \in inflight
  /\ req.allowRetries
  /\ Called
  /\ last' = Call("transportRetry", req.att, "pending", req, BadVal)
  /\ UNCHANGED <<objVars, transactionId, writes, nextTag, nextTx, inflight,
                 issued, begun, beginFailed, terminated>>

\* slip: the handler of begin runs on failure too and stores an id
Reject_stores(req) ==
  /\ req \in inflight
  /\ inflight' = inflight \ {req}
  /\ beginFailed' = IF req.then = "store" THEN beginFailed \cup {req.att}
                                          ELSE beginFailed
  /\ IF req.then = "store"
       THEN /\ transactionId' = StoreTransactionId(req.att, NewTransactionId)
            /\ nextTx' = NewTransactionId
       ELSE UNCHANGED <<transactionId, nextTx>>
  /\ last' = Call(RespOp(req), req.att, "rejected", req, BadVal)
  /\ UNCHANGED <<objVars, writes, nextTag, calls, issued, begun, terminated>>

Reject(req) ==
  /\ req \in inflight
  /\ inflight' = inflight \ {req}
  /\ beginFailed' = IF req.then = "store" THEN beginFailed \cup {req.att}
                                          ELSE beginFailed
  /\ last' = Call(RespOp(req), req.att, "rejected", req, BadVal)
  /\ UNCHANGED <<objVars, transactionId, writes, nextTag, nextTx, calls,
                 issued, begun, terminated>>

\* ---------------------------------------------------------------- system
Init ==
  /\ nAttempts = 0
  /\ previousTransaction = [a \in Attempts |-> 0]
  /\ writeBatch = [a \in Attempts |-> 0]
  /\ requestTag = [a \in Attempts |-> 0]
  /\ transactionId = [a \in Attempts |-> Unset]
  /\ writes = [b \in Attempts |-> << >>]
  /\ nextTag = 0
  /\ nextTx = 0
  /\ inflight = {}
  /\ calls = 0
  /\ issued = [a \in Attempts |-> << >>]
  /\ begun = [a \in Attempts |-> 0]
  /\ beginFailed = {}
  /\ terminated = {}
  /\ last = NoCall

Next ==
  \/ \E p \in 0..MaxCalls : Transaction(p)
  \/ \E a \in Attempts, x \in GetArgs : get(a, x)
  \/ \E a \in Attempts, args \in GetAllArgs : getAll(a, args)
  \/ \E a \in Attempts, d \in WriteDocs : create(a, d, DataVal)
  \/ \E a \in Attempts, d \in WriteDocs, o \in Options : set(a, d, DataVal, o)
  \/ \E a \in Attempts, args \in UpdateArgs : update(a, args)
  \/ \E a \in Attempts, d \in WriteDocs, p \in Preconditions : delete(a, d, p)
  \/ \E a \in Attempts : begin(a)
  \/ \E a \in Attempts : commit(a)
  \/ \E a \in Attempts : rollback(a)
  \/ \E req \in inflight : Resolve(req)
  \/ \E req \in inflight : Reject(req)
  \/ \E req \in inflight : TransportRetry(req)

Spec == Init /\ [][Next]_vars

TypeOK ==
  /\ nAttempts \in 0..MaxCalls
  /\ \A a \in 1..nAttempts : writeBatch[a] \in Attempts
  /\ Cardinality(inflight) <= MaxCalls

\* ================================================================ claims
ReadOps == {"get", "getAll"}
ReadMethods == {"batchGet", "runQuery"}
WriteOps == {"create", "set", "update", "delete"}

\* the latest step was this call on attempt a and it sent its request
Issued(op, a) == last.op = op /\ last.att = a /\ last.outcome = "pending"

\* C1: on an attempt on which a create/set/update/delete call has returned,
\* every get and every getAll fails with the read-after-write error and sends
\* nothing, whatever was read on the attempt before.
C1_ReadAfterWriteFails ==
  \A a \in 1..nAttempts :
    issued[a] # << >> =>
      /\ \A x \in GetArgs : getResult(a, x) = Thrown("SequencingError")
      /\ \A args \in GetAllArgs :
           getAllResult(a, args) = Thrown("SequencingError")
      /\ last.att = a /\ last.op \in ReadOps =>
           last.outcome = "SequencingError" /\ last.req = NoReq

\* a read was refused on an attempt that has a transaction id and a write
C1_Witness ==
  /\ last.op \in ReadOps
  /\ last.outcome = "SequencingError"
  /\ issued[last.att] # << >>
  /\ transactionId[last.att] # Unset

\* C2 as claimed: while a read of an attempt is in flight, no write is
\* buffered on that attempt.
C2_NoWriteWhileReadInFlight ==
  \A req \in inflight :
    req.method \in ReadMethods => issued[req.att] = << >>

\* C2 as amended: at the moment a get or getAll sends its read, the
\* attempt's batch is empty and no write call has returned on the attempt.
C2_BatchEmptyWhenReadIssued ==
  \A a \in 1..nAttempts :
    last.att = a /\ last.op \in ReadOps /\ last.outcome = "pending" =>
      /\ issued[a] = << >>
      /\ isEmpty(writeBatch[a])
      /\ last.req \in inflight

\* a query read went out on an attempt
C2_Witness ==
  /\ last.op = "get"
  /\ last.outcome = "pending"
  /\ last.req.method = "runQuery"
  /\ last.req \in inflight

\* C3: the commit request of an attempt holds exactly the create/set/update/
\* delete calls that returned on that attempt, each with the arguments it
\* was called with, in call order, and nothing of any other attempt.
C3_CommitSendsIssuedWrites ==
  \A a \in 1..nAttempts :
    Issued("commit", a) =>
      /\ last.req.method = "commit"
      /\ last.req.ops = issued[a]

\* a commit went out with two different operations, an update with a
\* precondition among them
C3_Witness ==
  /\ last.op = "commit"
  /\ Len(last.req.ops) = 2
  /\ last.req.ops[1] # last.req.ops[2]
  /\ \E i \in 1..2 : last.req.ops[i].k = "update"
                       /\ Len(last.req.ops[i].elems) = 3

\* C4: an attempt built from a previous one has that attempt's request tag
\* and a write batch of its own that holds nothing; an attempt built without
\* one has a tag no other attempt has.
C4_RetryKeepsTagFreshBatch ==
  \A a \in 1..nAttempts :
    last.op = "new" /\ last.att = a =>
      /\ previousTransaction[a] # 0 =>
           requestTag[a] = requestTag[previousTransaction[a]]
      /\ previousTransaction[a] = 0 =>
           \A b \in 1..nAttempts : b # a => requestTag[b] # requestTag[a]
      /\ isEmpty(writeBatch[a])
      /\ \A b \in 1..nAttempts : b # a => writeBatch[b] # writeBatch[a]

\* an attempt was built from one that has a write buffered
C4_Witness ==
  /\ last.op = "new"
  /\ previousTransaction[last.att] # 0
  /\ issued[previousTransaction[last.att]] # << >>

\* C5: the beginTransaction request of an attempt built from a previous one
\* names that attempt's transaction id as the transaction to retry; the
\* request of an attempt built without one has no options.
C5_BeginRetryMarker ==
  \A a \in 1..nAttempts :
    Issued("begin", a) =>
      /\ last.req.method = "beginTransaction"
      /\ IF previousTransaction[a] # 0
           THEN /\ last.req.hasOptions
                /\ last.req.retryTransaction =
                     transactionId[previousTransaction[a]]
           ELSE /\ ~last.req.hasOptions
                /\ last.req.retryTransaction = Unset

\* a retry began, naming the id its previous attempt got from the server
C5_Witness ==
  /\ last.op = "begin"
  /\ previousTransaction[last.att] # 0
  /\ last.req.retryTransaction # Unset
  /\ last.req.retryTransaction # transactionId[last.att]

\* C6: on an attempt without buffered writes, getAll of a list of document
\* references, given as separate arguments or as one array, sends one
\* document-group read with exactly these references in the order given and
\* the attempt's current transaction id, and the read resolves with as many
\* snapshots, the i-th being that of the i-th reference, repeated or not.
Snapshots(list) == [i \in 1..Len(list) |-> Snapshot(list[i])]

C7_GetIsGetAllUnwrapped ==
  /\ \A a \in 1..nAttempts : \A d \in Docs :
       LET g == getResult(a, d)
           ga == getAllResult(a, <<d>>)
       IN /\ g.outcome = ga.outcome
          /\ g.outcome = "pending" =>
               /\ [g.req EXCEPT !.then = "none"] = ga.req
               /\ Resolution(ga.req).elems = <<Resolution(g.req)>>
          /\ g.outcome # "pending" => g = ga
  /\ last.op = "batchGetResponse" /\ last.outcome = "resolved"
       /\ last.req.then = "unwrap" =>
         last.result = Snapshot(last.req.docs[1])

\* a get of one document resolved with that document's snapshot
C7_Witness ==
  /\ last.op = "batchGetResponse"
  /\ last.outcome = "resolved"
  /\ last.req.then = "unwrap"
  /\ last.result = Snapshot(DocRef(2))

\* C8: a call that ends with an ArgumentError sends no request and leaves
\* every write batch and every transaction id as they were; an update with
\* fewer than two arguments never reaches the batch, and a get of something
\* that is neither reference nor query, or a getAll with such an element,
\* sends nothing.
ArgumentErrorStep == calls' = calls + 1 /\ last'.outcome = "ArgumentError"

NoShortUpdate ==
  \A a \in Attempts :
    /\ \A i \in 1..Len(issued[a]) :
         issued[a][i].k = "update" => Len(issued[a][i].elems) >= 2
    /\ \A i \in 1..Len(writes[a]) :
         writes[a][i].k = "update" => Len(writes[a][i].elems) >= 2

BadReadsSendNothing ==
  \A a \in 1..nAttempts :
    /\ \A x \in GetArgs :
         ~IsDocumentReference(x) /\ ~IsQuery(x) =>
           getResult(a, x) = Thrown(IF isEmpty(writeBatch[a])
                                      THEN "ArgumentError"
                                      ELSE "SequencingError")
    /\ \A args \in GetAllArgs :
         (\E i \in 1..Len(NormalizeDocuments(args)) :
            ~IsDocumentReference(NormalizeDocuments(args)[i])) =>
           getAllResult(a, args) = Thrown(IF isEmpty(writeBatch[a])
                                            THEN "ArgumentError"
                                            ELSE "SequencingError")

C8_ArgumentErrorsAreLocal ==
  /\ [][ArgumentErrorStep =>
          /\ last'.req = NoReq
          /\ UNCHANGED <<inflight, writes, issued, transactionId, nextTx>>]_vars
  /\ [](NoShortUpdate /\ BadReadsSendNothing)

\* an update with too few arguments failed on an attempt that has a
\* transaction id and one write buffered, which is still all it has
C8_Witness ==
  /\ last.op = "update"
  /\ last.outcome = "ArgumentError"
  /\ transactionId[last.att] # Unset
  /\ Len(writes[writeBatch[last.att]]) = 1

\* C9 as claimed: no id before a begin of the attempt has succeeded, and an
\* id once assigned never changes.
UnsetUntilBegun ==
  \A a \in Attempts : begun[a] = 0 => transactionId[a] = Unset

C9_AssignedExactlyOnce ==
  /\ [](UnsetUntilBegun)
  /\ [][\A a \in Attempts :
          transactionId[a] # Unset => transactionId'[a] = transactionId[a]]_vars

\* C9 as amended: no id before a begin of the attempt has succeeded, and the
\* id changes only when a successful begin response of that same attempt is
\* stored: each such response assigns the id it carries, so that a second
\* successful begin on the attempt replaces the first id.
C9_AssignedByOwnBeginOnly ==
  /\ [](UnsetUntilBegun)
  /\ [][\A a \in Attempts :
          transactionId'[a] # transactionId[a] =>
            /\ last'.op = "beginTransactionResponse"
            /\ last'.outcome = "resolved"
            /\ last'.att = a
            /\ last'.req \in inflight
            /\ begun'[a] = begun[a] + 1
            /\ transactionId'[a] # Unset]_vars

\* an attempt whose begin succeeded twice holds the second id
C9_Witness ==
  /\ last.op = "beginTransactionResponse"
  /\ last.outcome = "resolved"
  /\ begun[last.att] = 2
  /\ transactionId[last.att] = nextTx

\* C10 as claimed: an attempt one of whose begins failed never has an id,
\* and no get, getAll or commit is sent for it afterwards.
C10_NothingAfterFailedBegin ==
  \A a \in beginFailed :
    /\ transactionId[a] = Unset
    /\ ~(last.att = a /\ last.op \in ReadOps \cup {"commit"}
           /\ last.outcome = "pending")

\* C10 as amended: a failed begin leaves the attempt's id as it was, so an
\* attempt none of whose begins succeeded has no id; the attempt itself does
\* not refuse what is called afterwards: a get, getAll or commit is sent, and
\* carries the id the attempt then has, unset if it has none.
FailedBeginStep ==
  /\ last'.op = "beginTransactionResponse"
  /\ last'.outcome = "rejected"
  /\ inflight' # inflight

C10_FailedBeginStoresNothing ==
  /\ [][FailedBeginStep =>
          /\ transactionId' = transactionId
          /\ last'.att \in beginFailed']_vars
  /\ [](\A a \in beginFailed :
          /\ begun[a] = 0 => transactionId[a] = Unset
          /\ last.att = a /\ last.op \in ReadOps \cup {"commit"}
               /\ last.outcome = "pending" =>
                 /\ last.req \in inflight
                 /\ last.req.txid = transactionId[a])

\* a commit went out, without an id, for an attempt whose only begin failed
C10_Witness ==
  /\ last.op = "commit"
  /\ last.outcome = "pending"
  /\ last.att \in beginFailed
  /\ last.req.txid = Unset
  /\ last.req \in inflight

\* C11: a get of a query on an attempt that has no transaction id fails, and
\* no query is sent with an unset transaction id.
C11_NoQueryWithoutTransactionId ==
  /\ ~(last.op = "get" /\ last.req.method = "runQuery"
         /\ last.req.txid = Unset)
  /\ \A req \in inflight : req.method = "runQuery" => req.txid # Unset

\* C12: a write batch only grows: no step takes an operation out of it or
\* gives the attempt another batch, so that from the first write call that
\* returned on an attempt its batch is non-empty for good, through further
\* writes, refused reads, commit, rollback and their responses, and every
\* get or getAll called on the attempt from then on is refused.
BatchOf(a) == writes[writeBatch[a]]

C12_GuardIsMonotonic ==
  /\ [][\A a \in 1..nAttempts :
          /\ writeBatch'[a] = writeBatch[a]
          /\ Len(BatchOf(a)') >= Len(BatchOf(a))
          /\ SubSeq(BatchOf(a)', 1, Len(BatchOf(a))) = BatchOf(a)]_vars
  /\ [](\A a \in 1..nAttempts :
          issued[a] # << >> =>
            /\ ~isEmpty(writeBatch[a])
            /\ Len(BatchOf(a)) >= Len(issued[a])
            /\ \A x \in GetArgs : getResult(a, x).outcome = "SequencingError"
            /\ \A args \in GetAllArgs :
                 getAllResult(a, args).outcome = "SequencingError"
            /\ last.att = a /\ last.op \in ReadOps =>
                 last.outcome = "SequencingError")

\* a read was refused on an attempt that was committed after its write
C12_Witness ==
  /\ last.op \in ReadOps
  /\ last.outcome = "SequencingError"
  /\ last.att \in terminated
  /\ inflight = {}
  /\ ~isEmpty(writeBatch[last.att])

\* C13: only beginTransaction requests are issued as retryable, so only they
\* are sent again by the transport; a commit or rollback call sends one
\* request, and when that request fails the caller gets the failure: nothing
\* is sent again and no attempt is constructed.
TerminalOps == {"commit", "rollback"}
TerminalResponses == {"commitResponse", "rollbackResponse"}

C13_OnlyBeginIsRetryable ==
  /\ [](/\ last.op \in TerminalOps =>
             last.outcome = "pending" /\ ~last.req.allowRetries
        /\ last.op = "begin" => last.req.allowRetries
        /\ last.op = "transportRetry" => last.req.method = "beginTransaction"
        /\ \A req \in inflight :
             req.allowRetries <=> req.method = "beginTransaction")
  /\ [][/\ calls' = calls + 1 /\ last'.op \in TerminalOps =>
             /\ inflight' = inflight \cup {last'.req}
             /\ last'.req.method = last'.op
             /\ nAttempts' = nAttempts
        /\ last'.op \in TerminalResponses /\ last'.outcome = "rejected"
             /\ inflight' # inflight =>
             /\ inflight' = inflight \ {last'.req}
             /\ nAttempts' = nAttempts
             /\ calls' = calls]_vars

\* a commit of two writes failed and nothing is on its way any more
C13_Witness ==
  /\ last.op = "commitResponse"
  /\ last.outcome = "rejected"
  /\ Len(last.req.ops) = 2
  /\ inflight = {}

\* C14 as claimed: once commit or rollback was called on an attempt, no
\* begin, read, write, commit or rollback called on it takes effect.
EffectiveOps == {"begin"} \cup ReadOps \cup WriteOps \cup TerminalOps

C14_TerminalAfterCommitOrRollback ==
  [][\A a \in terminated :
       ~(/\ calls' = calls + 1
         /\ last'.att = a
         /\ last'.op \in EffectiveOps
         /\ last'.outcome \in {"pending", "returned"})]_vars

\* C14 as amended: commit and rollback leave the attempt's request tag,
\* transaction id and write batch as they were, and the attempt refuses
\* nothing because of them: a begin, commit or rollback called afterwards is
\* sent, a write called afterwards is added to the batch, and a read is
\* refused only for a non-empty batch or a bad argument.
C14_CommitAndRollbackLeaveAttemptUsable ==
  /\ [][calls' = calls + 1 /\ last'.op \in TerminalOps =>
          /\ UNCHANGED <<objVars, transactionId, writes, issued>>
          /\ last'.att \in terminated']_vars
  /\ [](\A a \in terminated :
          last.att = a =>
            /\ last.op \in WriteOps /\ last.outcome = "returned" =>
                 /\ BatchOf(a) = issued[a]
                 /\ issued[a][Len(issued[a])].k = last.op
            /\ last.op \in TerminalOps \cup {"begin"} =>
                 last.outcome = "pending" /\ last.req \in inflight
            /\ last.op \in ReadOps =>
                 (last.outcome = "pending"
                    <=> issued[a] = << >> /\ ~last.badArg))

\* a write was added to the batch of an attempt after its commit was called
C14_Witness ==
  /\ last.op \in WriteOps
  /\ last.outcome = "returned"
  /\ last.att \in terminated
  /\ Len(BatchOf(last.att)) = 2
  /\ \E req \in inflight : req.method = "commit" /\ Len(req.ops) = 1

\* C15: the request tag of an attempt never changes once the attempt is
\* constructed, every attempt has the tag of the first attempt of its chain
\* of retries, and every beginTransaction, commit and rollback request
\* carries that tag.
RECURSIVE ChainRoot(_)
ChainRoot(a) ==
  IF previousTransaction[a] = 0 THEN a ELSE ChainRoot(previousTransaction[a])

C15_OneTagPerChain ==
  /\ [][\A a \in 1..nAttempts :
          /\ requestTag'[a] = requestTag[a]
          /\ previousTransaction'[a] = previousTransaction[a]]_vars
  /\ [](/\ \A a \in 1..nAttempts : requestTag[a] = requestTag[ChainRoot(a)]
        /\ \A a, b \in 1..nAttempts :
             requestTag[a] = requestTag[b] <=> ChainRoot(a) = ChainRoot(b)
        /\ last.op \in {"begin"} \cup TerminalOps =>
             last.req.tag = requestTag[ChainRoot(last.att)]
        /\ \A req \in inflight :
             req.method \in {"beginTransaction", "commit", "rollback"} =>
               req.tag = requestTag[ChainRoot(req.att)])

\* the retry of a retry committed, with the tag of the first attempt
C15_Witness ==
  /\ last.op = "commit"
  /\ previousTransaction[last.att] # 0
  /\ previousTransaction[previousTransaction[last.att]] # 0
  /\ last.req.tag = requestTag[ChainRoot(last.att)]
  /\ ChainRoot(last.att) # last.att

\* C16: a step on one attempt (its construction, a call on it, a response
\* to it) leaves the request tag, the transaction id and the write batch of
\* every other attempt as they were, the attempt it retries among them.
C16_OtherAttemptsUntouched ==
  [][\A a \in 1..nAttempts :
       last'.att # a =>
         /\ requestTag'[a] = requestTag[a]
         /\ transactionId'[a] = transactionId[a]
         /\ writeBatch'[a] = writeBatch[a]
         /\ BatchOf(a)' = BatchOf(a)
         /\ previousTransaction'[a] = previousTransaction[a]]_vars

\* a retry buffered a write of its own next to the one of its previous attempt
C16_Witness ==
  /\ last.op \in WriteOps
  /\ last.outcome = "returned"
  /\ previousTransaction[last.att] # 0
  /\ Len(BatchOf(previousTransaction[last.att])) = 1
  /\ Len(BatchOf(last.att)) = 1
  /\ BatchOf(previousTransaction[last.att]) # BatchOf(last.att)

\* C17: a create, set, update or delete call that returns has added exactly
\* one operation, of its own kind, at the end of the attempt's own write
\* batch; it has sent no request, has left every other batch, the transaction
\* ids and the request tags as they were, and has returned the transaction
\* it was called on.
WriteStep ==
  /\ calls' = calls + 1
  /\ last'.op \in WriteOps
  /\ last'.outcome = "returned"

C17_WriteBuffersOneOperation ==
  [][WriteStep =>
       /\ writeBatch' = writeBatch
       /\ writes'[writeBatch[last'.att]]
            = Append(BatchOf(last'.att), writes'[writeBatch[last'.att]]
                                           [Len(BatchOf(last'.att)) + 1])
       /\ writes'[writeBatch[last'.att]][Len(BatchOf(last'.att)) + 1].k
            = last'.op
       /\ \A b \in Attempts \ {writeBatch[last'.att]} : writes'[b] = writes[b]
       /\ inflight' = inflight
       /\ last'.req = NoReq
       /\ transactionId' = transactionId
       /\ requestTag' = requestTag
       /\ last'.result = This(last'.att)]_vars

\* a delete returned as the second write of its attempt
C17_Witness ==
  /\ last.op = "delete"
  /\ last.outcome = "returned"
  /\ last.result = This(last.att)
  /\ Len(BatchOf(last.att)) = 2
  /\ BatchOf(last.att)[2].k = "delete"
  /\ BatchOf(last.att)[1].k # "delete"

\* C18: the request of every commit and of every rollback carries the
\* transaction id held by the attempt it was called on, which only that
\* attempt's own begin can have stored, and never the id of the attempt it
\* retries; a rollback request holds nothing but that id (no writes, no
\* documents, no options) and the call leaves every write batch as it was.
TerminalCall == last.op \in TerminalOps /\ last.outcome = "pending"

C18_TerminalRequestsCarryOwnId ==
  /\ [](TerminalCall =>
          /\ last.req.txid = transactionId[last.att]
          /\ last.req.txid # Unset => begun[last.att] > 0
          /\ \A p \in 1..nAttempts :
               (p = previousTransaction[last.att] /\ transactionId[p] # Unset)
                 => last.req.txid # transactionId[p]
          /\ last.op = "rollback" =>
               last.req = [NoReq EXCEPT !.method = "rollback",
                                        !.att = last.att,
                                        !.tag = requestTag[last.att],
                                        !.txid = transactionId[last.att]])
  /\ [][(calls' = calls + 1 /\ last'.op = "rollback") =>
          writes' = writes /\ writeBatch' = writeBatch]_vars

\* a rollback of an attempt that has begun and has a write buffered
C18_Witness ==
  /\ last.op = "rollback"
  /\ last.outcome = "pending"
  /\ last.req.txid # Unset
  /\ last.req.txid = transactionId[last.att]
  /\ last.req.ops = << >>
  /\ BatchOf(last.att) # << >>

\* C19: get and getAll look at the write batch before they look at their
\* arguments: a read with an argument that is no reference (and, for get, no
\* query) fails with the read-after-write error once a write is buffered,
\* and a read fails with an argument error only while the batch is empty.
ReadCalled == last.op \in ReadOps

C19_GuardBeforeValidation ==
  /\ (ReadCalled /\ last.outcome = "ArgumentError") =>
       /\ BatchOf(last.att) = << >>
       /\ issued[last.att] = << >>
       /\ last.badArg
  /\ (ReadCalled /\ last.badArg) =>
       last.outcome = IF BatchOf(last.att) # << >> THEN "SequencingError"
                                                   ELSE "ArgumentError"
  /\ ReadCalled => last.outcome \in {"SequencingError", "ArgumentError",
                                     "pending"}

\* a read with a bad argument after a write: the read-after-write error
C19_Witness ==
  /\ last.op = "getAll"
  /\ last.badArg
  /\ BatchOf(last.att) # << >>
  /\ last.outcome = "SequencingError"
  /\ last.req = NoReq

\* C20: a beginTransaction request has retry options exactly when its
\* attempt was constructed with a previous attempt, whatever has become of
\* that attempt (begun or not, failed, committed or rolled back, with or
\* without writes); when the previous attempt never got a transaction id
\* the options are there all the same and name no transaction.
BeginRequests == {req \in inflight : req.method = "beginTransaction"}

C20_RetryOptionsFollowConstruction ==
  /\ \A req \in BeginRequests :
       /\ req.hasOptions <=> previousTransaction[req.att] # 0
       /\ ~req.hasOptions => req.retryTransaction = Unset
  /\ \A a \in 1..nAttempts :
       (Issued("begin", a) /\ previousTransaction[a] # 0) =>
         /\ last.req \in BeginRequests
         /\ transactionId[previousTransaction[a]] = Unset =>
              last.req.hasOptions /\ last.req.retryTransaction = Unset
         /\ transactionId[previousTransaction[a]] # Unset =>
              last.req.retryTransaction # Unset

\* a retry of an attempt whose begin failed begins: options, no id in them
C20_Witness ==
  /\ last.op = "begin"
  /\ last.outcome = "pending"
  /\ previousTransaction[last.att] # 0
  /\ previousTransaction[last.att] \in beginFailed
  /\ transactionId[previousTransaction[last.att]] = Unset
  /\ last.req.hasOptions
  /\ last.req.retryTransaction = Unset

====
